---- MODULE Spec2Model ----
(***************************************************************************)
(* Model of the browser voice-agent client (complete-voice-agent.js):      *)
(* the turn-taking state machine, the websocket life cycle, the timers     *)
(* and the jitter-buffer playback scheduler.                               *)
(*                                                                         *)
(* Every handler of the program runs to completion, so each handler is a   *)
(* pure operator from a state record to a state record, and each action    *)
(* of the model applies one handler to the current state.                  *)
(*                                                                         *)
(* The output clock of the playback AudioContext is counted in sample      *)
(* periods (1/44100 s), so that the duration of a chunk is its number of   *)
(* samples.  Wall-clock time is counted in ticks of 1000 ms; a pending     *)
(* setTimeout is kept as the number of ticks left until it is due.         *)
(*                                                                         *)
(* The program is explored in several environments (the variable env,      *)
(* fixed by the initial state):                                            *)
(*   Spec       the session: sockets, microphone, teardown, two            *)
(*              conversations; a pending timer may fire at any time        *)
(*   SpecAudio  the scheduler: the WAV header, suspended contexts, the     *)
(*              output clock; a pending timer may fire at any time         *)
(*   SpecTimed  the timers with their delays                               *)
(*   SpecLive   the timers with their delays in one conversation, where a  *)
(*              due timer does fire and time does pass                     *)
(*   SpecStream the stream of one conversation: payloads that do not       *)
(*              decode, suspended playback contexts                        *)
(*   SpecDialog one conversation with the chat history, the status line    *)
(*              and the messages sent recorded, and the capture blocks     *)
(*   SpecEnd    the end of a conversation, where the callback of every     *)
(*              pending timer eventually runs                              *)
(*   SpecBurst  a burst of chunks of one response, with the output clock   *)
(*              advancing and suspended playback contexts                  *)
(*   SpecFrame  one conversation in which the server sends messages of     *)
(*              every type, with the live transcript recorded              *)
(* and the delay computation alone in SpecWait, the conversion of a        *)
(* sample to 16 bits and back alone in SpecCodec.                          *)
(***************************************************************************)
EXTENDS Integers, Sequences, FiniteSets

\* ---------------------------------------------------------------- bounds
MaxConv == 2            \* Spec: websockets created in one run
MaxChunks == 1          \* Spec: audio_chunk messages delivered in one run
MaxTimers == 1          \* Spec: setTimeout callbacks pending at one time
MaxHistory == 2         \* Spec: turns appended to the chat history
AudioMaxChunks == 4     \* SpecAudio: audio_chunk messages delivered
AudioMaxTimers == 1     \* SpecAudio: setTimeout callbacks pending
AudioMaxAdvances == 2   \* SpecAudio: advances of the output clock of a context
TimedMaxConv == 2       \* SpecTimed: websockets created
TimedMaxChunks == 2     \* SpecTimed: audio_chunk messages delivered
TimedMaxTimers == 2     \* SpecTimed: setTimeout callbacks pending
LiveMaxChunks == 2      \* SpecLive: audio_chunk messages delivered
LiveMaxTimers == 2      \* SpecLive: setTimeout callbacks pending
MaxWaitInput == 120     \* SpecWait: largest total_chunks
StreamMaxChunks == 4    \* SpecStream: audio_chunk messages delivered
StreamMaxTimers == 1    \* SpecStream: setTimeout callbacks pending
DialogMaxChunks == 1    \* SpecDialog: audio_chunk messages delivered
DialogMaxTimers == 2    \* SpecDialog: setTimeout callbacks pending
DialogMaxHistory == 2   \* SpecDialog: turns in the chat history
BurstMaxChunks == 3     \* SpecBurst: audio_chunk messages delivered
FrameMaxChunks == 1     \* SpecFrame: audio_chunk messages delivered
EndMaxConv == 2         \* SpecEnd: conversations started
EndMaxChunks == 1       \* SpecEnd: audio_chunk messages delivered
SampleDenominator == 49152 \* SpecCodec: the samples are k / SampleDenominator
EndMaxTimers == 2       \* SpecEnd: setTimeout callbacks pending

\* ------------------------------------------------------ program constants
Int16Scale == 32768
Int16Min == -32768
Int16Max == 32767
bufferThreshold == 3
AUDIO_SAMPLE_RATE == 44100
WavHeaderBytes == 44
BatchLimit == 5
SafetyTimeoutMs == 15000
EndTimeoutMs == 8000
MinWaitMs == 2000
MaxWaitMs == 5000
MsPerChunk == 1000

PlayheadLead == AUDIO_SAMPLE_RATE \div 10     \* currentTime + 0.1
SnapEpsilon == AUDIO_SAMPLE_RATE \div 100     \* now + 0.01

Min(a, b) == IF a < b THEN a ELSE b
Max(a, b) == IF a > b THEN a ELSE b

\* the most sockets any environment makes
SocketLimit == Max(MaxConv, TimedMaxConv)

\* const sessionId = params.get("session_id")
sessionId == "session"

\* a delay in ms as a number of 1000 ms ticks (rounded up)
Ticks(ms) == (ms + 999) \div 1000

Sockets == 1..SocketLimit
Phases == {"idle", "listening", "processing", "speaking", "ending"}
MessageTypes == {"connection", "session_opened", "transcript", "turn_complete",
                 "chat_started", "audio_chunk", "llm_response_complete",
                 "chat_complete", "error", "audio_complete",
                 "conversation_ended", "unknown"}

VARIABLES
    env,                    \* the environment explored: its inputs and bounds
    conversationState,      \* 'idle' | 'listening' | 'processing' | 'speaking' | 'ending'
    websocket,              \* 0 (null) or the socket the global refers to
    wsState,                \* per socket: none, connecting, open, closing, failing, closed
    audioContext,           \* capture context: "null" or "running"
    micPending,             \* getUserMedia requests not yet answered
    isConversationActive,
    chatHistory,
    audioPlaybackContext,   \* "null" | "suspended" | "running"
    currentTime,            \* audioPlaybackContext.currentTime, in sample periods
    resumeRequested,        \* resume() was called on the suspended playback context
    resumeCallbacks,        \* pending resume().then(processBufferedChunks)
    audioPlayheadTime,
    audioBufferQueue,
    isBuffering,
    isAudioPlaying,
    wavHeaderProcessed,
    timers,                 \* bag of pending setTimeout callbacks
    status,                 \* class of the last updateStatus text
    transcriptText,         \* text of the live transcript element
    processors,             \* capture ScriptProcessors of contexts not closed
    sent,                   \* what the handler that ran last sent on the channel
    received,               \* type of the inbound message the last handler dispatched
    codec,                  \* a sample on its way through the capture and the playback conversion
    \* --- history variables (not program state) ---
    nChunks,                \* audio_chunk messages delivered so far
    scheduled,              \* source.start calls of the current Speaking phase
    lastStarted,            \* arrival number of the chunk of the last source.start
    segFrom,                \* scheduled[segFrom+1..] : since the last other inbound message
    enqInPhase,             \* chunks queued since the phase became Speaking
    forcedInPhase,          \* completions forced by the safety timeout in this phase
    completeInPhase,        \* an audio_complete message was processed in this phase
    drainHold,              \* ticks left until t + clamp of the audio_complete messages
    lostCount,              \* per socket: connection-lost notices surfaced by its close
    lastTotal,              \* total_chunks of the last handleAudioComplete
    lastWait                \* waitTime it computed, in ms

vars == <<env, conversationState, websocket, wsState, audioContext, micPending,
          isConversationActive, chatHistory, audioPlaybackContext, currentTime,
          resumeRequested, resumeCallbacks, audioPlayheadTime, audioBufferQueue,
          isBuffering, isAudioPlaying, wavHeaderProcessed, timers, status,
          transcriptText, processors, sent, received, codec, nChunks, scheduled, lastStarted,
          segFrom, enqInPhase, forcedInPhase,
          completeInPhase, drainHold, lostCount, lastTotal, lastWait>>

\* the current state as a record, field names as in the source; a handler
\* starts with nothing sent
St == [env |-> env, conversationState |-> conversationState, websocket |-> websocket,
       wsState |-> wsState, audioContext |-> audioContext,
       micPending |-> micPending, isConversationActive |-> isConversationActive,
       chatHistory |-> chatHistory, audioPlaybackContext |-> audioPlaybackContext,
       currentTime |-> currentTime, resumeRequested |-> resumeRequested,
       resumeCallbacks |-> resumeCallbacks,
       audioPlayheadTime |-> audioPlayheadTime,
       audioBufferQueue |-> audioBufferQueue, isBuffering |-> isBuffering,
       isAudioPlaying |-> isAudioPlaying,
       wavHeaderProcessed |-> wavHeaderProcessed, timers |-> timers,
       status |-> status, transcriptText |-> transcriptText,
       processors |-> processors, sent |-> << >>, received |-> "", codec |-> codec, nChunks |-> nChunks,
       scheduled |-> scheduled, lastStarted |-> lastStarted,
       segFrom |-> segFrom, enqInPhase |-> enqInPhase,
       forcedInPhase |-> forcedInPhase, completeInPhase |-> completeInPhase,
       drainHold |-> drainHold, lostCount |-> lostCount, lastTotal |-> lastTotal,
       lastWait |-> lastWait]

\* the next state is the record s
Becomes(s) ==
    /\ env' = s.env
    /\ conversationState' = s.conversationState
    /\ websocket' = s.websocket
    /\ wsState' = s.wsState
    /\ audioContext' = s.audioContext
    /\ micPending' = s.micPending
    /\ isConversationActive' = s.isConversationActive
    /\ chatHistory' = s.chatHistory
    /\ audioPlaybackContext' = s.audioPlaybackContext
    /\ currentTime' = s.currentTime
    /\ resumeRequested' = s.resumeRequested
    /\ resumeCallbacks' = s.resumeCallbacks
    /\ audioPlayheadTime' = s.audioPlayheadTime
    /\ audioBufferQueue' = s.audioBufferQueue
    /\ isBuffering' = s.isBuffering
    /\ isAudioPlaying' = s.isAudioPlaying
    /\ wavHeaderProcessed' = s.wavHeaderProcessed
    /\ timers' = s.timers
    /\ status' = s.status
    /\ transcriptText' = s.transcriptText
    /\ processors' = s.processors
    /\ sent' = s.sent
    /\ received' = s.received
    /\ codec' = s.codec
    /\ nChunks' = s.nChunks
    /\ scheduled' = s.scheduled
    /\ lastStarted' = s.lastStarted
    /\ segFrom' = s.segFrom
    /\ enqInPhase' = s.enqInPhase
    /\ forcedInPhase' = s.forcedInPhase
    /\ completeInPhase' = s.completeInPhase
    /\ drainHold' = s.drainHold
    /\ lostCount' = s.lostCount
    /\ lastTotal' = s.lastTotal
    /\ lastWait' = s.lastWait

\* ------------------------------------------------------- sample codec
\* A float sample is the rational n / d.  Storing a number into an
\* Int16Array element truncates it toward zero and wraps it to 16 bits.
Trunc(n, d) == IF n >= 0 THEN n \div d ELSE -((-n) \div d)
ToInt16(i) == ((i - Int16Min) % (2 * Int16Scale)) + Int16Min

\* variant: the product is stored without the clamp
floatToInt16_NoClamp(n, d) == ToInt16(Trunc(n * Int16Scale, d))

\* onaudioprocess: outputData[i] = Math.max(-32768, Math.min(32767, x * 32768))
floatToInt16(n, d) ==
    LET clampMax == IF n * Int16Scale < Int16Max * d THEN n * Int16Scale
                    ELSE Int16Max * d
        clamped == IF clampMax > Int16Min * d THEN clampMax ELSE Int16Min * d
    IN ToInt16(Trunc(clamped, d))

\* the two bytes of an Int16Array element in the buffer that is sent
\* (typed arrays of the browsers are little-endian)
Int16Bytes(i) ==
    LET u == i % (2 * Int16Scale) IN [lo |-> u % 256, hi |-> u \div 256]

\* base64ToPCMFloat32: view.getInt16(i * 2, true)
getInt16(b) ==
    LET u == b.lo + 256 * b.hi
    IN IF u >= Int16Scale THEN u - 2 * Int16Scale ELSE u

\* no sample is being converted
NoSample == [stage |-> "none", x |-> 0, int16 |-> 0, lo |-> 0, hi |-> 0, y |-> 0]

\* the sample n / d captured, sent and decoded: y is the numerator of the
\* decoded float int16 / 32768.0
RoundTripOf(n, d) ==
    LET i == floatToInt16(n, d)
        b == Int16Bytes(i)
    IN [stage |-> "decoded", x |-> n, int16 |-> i, lo |-> b.lo, hi |-> b.hi,
        y |-> getInt16(b)]

\* --------------------------------------------------------------- the UI
\* The program only writes the status line, the transcript element and the
\* chat history, it never reads them; an environment with env.ui = FALSE
\* does not record them.
updateStatus(s, message) ==
    IF s.env.ui THEN [s EXCEPT !.status = message] ELSE s
showLiveTranscript(s) ==
    IF s.env.ui THEN [s EXCEPT !.transcriptText = "Listening..."] ELSE s
updateLiveTranscript(s, text) ==
    IF s.env.ui THEN [s EXCEPT !.transcriptText = text] ELSE s

\* ------------------------------------------------------------- timers
\* timers is a bag: a function from the pending [kind, left] to its count
NoTimers == << >>
TimerCount(b) ==
    LET RECURSIVE Sum(_)
        Sum(D) == IF D = {} THEN 0
                  ELSE LET r == CHOOSE x \in D : TRUE IN b[r] + Sum(D \ {r})
    IN Sum(DOMAIN b)
AddTimer(b, r) ==
    IF r \in DOMAIN b THEN [b EXCEPT ![r] = @ + 1]
    ELSE [x \in DOMAIN b \cup {r} |-> IF x = r THEN 1 ELSE b[x]]
RemoveTimer(b, r) ==
    IF b[r] > 1 THEN [b EXCEPT ![r] = @ - 1]
    ELSE [x \in DOMAIN b \ {r} |-> b[x]]
\* setTimeout(callback kind, ms)
setTimeout(s, kind, ms) ==
    [s EXCEPT !.timers = AddTimer(@, [kind |-> kind,
                                      left |-> IF s.env.timed THEN Ticks(ms) ELSE 0,
                                      stale |-> FALSE])]

\* history: the pending timers of b, marked as armed before a teardown
\* (the program keeps no handle of a timer and calls no clearTimeout)
MarkStale(b) ==
    LET D == {[r EXCEPT !.stale = TRUE] : r \in DOMAIN b}
        Count(x) == IF x \in DOMAIN b THEN b[x] ELSE 0
    IN [x \in D |-> Count(x) + Count([x EXCEPT !.stale = FALSE])]
\* recorded in the environments where timers keep their delays
Teardown(s) ==
    IF s.env.timed THEN [s EXCEPT !.timers = MarkStale(@)] ELSE s

\* websocket.send(m) on an open socket; a binary frame carries no session_id
Send(s, m) == IF s.env.out THEN [s EXCEPT !.sent = Append(@, m)] ELSE s

\* ------------------------------------------------- playback scheduler
\* variant: the playhead is not advanced past the scheduled chunk
scheduleChunkAtPlayhead_PlayheadKept(s, chunk) ==
    IF s.audioPlaybackContext = "null" THEN s
    ELSE LET now == s.currentTime
             start == IF s.audioPlayheadTime <= now THEN now + SnapEpsilon
                      ELSE s.audioPlayheadTime
         IN [s EXCEPT !.audioPlayheadTime = start,
                      !.lastStarted = chunk.idx,
                      !.scheduled = Append(@, [idx |-> chunk.idx, start |-> start,
                                               dur |-> chunk.len, at |-> now])]

\* variant: the playhead is snapped only when the clock has passed it
scheduleChunkAtPlayhead_SnapWhenPassed(s, chunk) ==
    IF s.audioPlaybackContext = "null" THEN s
    ELSE LET now == s.currentTime
             start == IF s.audioPlayheadTime < now THEN now + SnapEpsilon
                      ELSE s.audioPlayheadTime
         IN [s EXCEPT !.audioPlayheadTime = start + chunk.len,
                      !.lastStarted = chunk.idx,
                      !.scheduled = Append(@, [idx |-> chunk.idx, start |-> start,
                                               dur |-> chunk.len, at |-> now])]

\* scheduleChunkAtPlayhead: source.start(audioPlayheadTime), then advance
scheduleChunkAtPlayhead(s, chunk) ==
    IF s.audioPlaybackContext = "null" THEN s
    ELSE LET now == s.currentTime
             start == IF s.audioPlayheadTime <= now THEN now + SnapEpsilon
                      ELSE s.audioPlayheadTime
         IN [s EXCEPT !.audioPlayheadTime = start + chunk.len,
                      !.lastStarted = chunk.idx,
                      !.scheduled = Append(@, [idx |-> chunk.idx, start |-> start,
                                               dur |-> chunk.len, at |-> now])]

\* variant: the loop pops the newest chunk of the queue
RECURSIVE ShiftAndSchedule_Newest(_, _)
ShiftAndSchedule_Newest(s, n) ==
    IF n = 0 THEN s
    ELSE ShiftAndSchedule_Newest(
             scheduleChunkAtPlayhead(
                 [s EXCEPT !.audioBufferQueue = SubSeq(@, 1, Len(@) - 1)],
                 s.audioBufferQueue[Len(s.audioBufferQueue)]),
             n - 1)

\* the loop of processBufferedChunks: shift and schedule n chunks
RECURSIVE ShiftAndSchedule(_, _)
ShiftAndSchedule(s, n) ==
    IF n = 0 THEN s
    ELSE ShiftAndSchedule(
             scheduleChunkAtPlayhead(
                 [s EXCEPT !.audioBufferQueue = Tail(@)], Head(s.audioBufferQueue)),
             n - 1)

\* variant: one chunk is scheduled per call
processBufferedChunks_One(s) ==
    ShiftAndSchedule(s, Min(Len(s.audioBufferQueue), 1))

processBufferedChunks(s) ==
    ShiftAndSchedule(s, Min(Len(s.audioBufferQueue), BatchLimit))

resetAudioPlaybackState(s) ==
    [s EXCEPT !.audioPlayheadTime = IF s.audioPlaybackContext # "null"
                                    THEN s.currentTime + PlayheadLead ELSE 0,
              !.audioBufferQueue = << >>,
              !.isBuffering = TRUE,
              !.isAudioPlaying = FALSE,
              !.wavHeaderProcessed = FALSE]

\* initializeAudioPlayback; fresh is the state a newly made AudioContext is in
initializeAudioPlayback(s, fresh) ==
    LET s1 == IF s.audioPlaybackContext = "null"
              THEN [s EXCEPT !.audioPlaybackContext = fresh, !.currentTime = 0,
                             !.resumeRequested = FALSE, !.resumeCallbacks = 0]
              ELSE s
        s2 == IF s1.audioPlaybackContext = "suspended"
              THEN [s1 EXCEPT !.resumeRequested = TRUE]
              ELSE s1
    IN resetAudioPlaybackState(s2)

\* variant: playback is deferred on a running context too
startBufferedPlayback_Deferred(s, fresh) ==
    IF s.audioPlaybackContext = "null" THEN initializeAudioPlayback(s, fresh)
    ELSE [s EXCEPT !.resumeRequested = TRUE, !.resumeCallbacks = @ + 1]

startBufferedPlayback(s, fresh) ==
    IF s.audioPlaybackContext = "null" THEN initializeAudioPlayback(s, fresh)
    ELSE IF s.audioPlaybackContext = "suspended"
    THEN [s EXCEPT !.resumeRequested = TRUE, !.resumeCallbacks = @ + 1]
    ELSE processBufferedChunks(s)

\* base64ToPCMFloat32: the number of samples decoded from a payload of the
\* given number of bytes, -1 for null (an exception was caught); a payload
\* that is not base64 has bytes < 0: atob throws before the header flag is set
DecodedSamples(headerDone, bytes) ==
    LET offset == IF headerDone THEN 0 ELSE WavHeaderBytes
        length == bytes - offset
    IN IF length < 0 \/ length % 2 # 0 THEN -1 ELSE length \div 2

\* variant: the estimate is not capped at MaxWaitMs
WaitTime_Unclamped(total_chunks) ==
    LET estimatedPlaybackTime == total_chunks * MsPerChunk
    IN Max(MinWaitMs, estimatedPlaybackTime)

\* waitTime of handleAudioComplete, in ms
WaitTime(total_chunks) ==
    LET estimatedPlaybackTime == total_chunks * MsPerChunk
    IN Max(MinWaitMs, Min(estimatedPlaybackTime, MaxWaitMs))

handleAudioComplete(s, total_chunks) ==
    LET s1 == IF Len(s.audioBufferQueue) > 0 THEN processBufferedChunks(s) ELSE s
        s2 == updateStatus(s1, "info")
    IN setTimeout(s2, "drain", WaitTime(total_chunks))

\* the phase becomes Speaking: the history of the phase starts empty
EnterSpeaking(s) ==
    [updateStatus(s, "info") EXCEPT !.conversationState = "speaking",
              !.scheduled = << >>, !.segFrom = 0, !.enqInPhase = 0,
              !.forcedInPhase = 0, !.completeInPhase = FALSE, !.drainHold = 0]

\* variant: playback starts with the first chunk, whatever the queue holds
handleAudioChunk_NoThreshold(s, bytes, fresh) ==
    LET s1 == IF s.conversationState # "speaking" THEN EnterSpeaking(s) ELSE s
        pcm == DecodedSamples(s1.wavHeaderProcessed, bytes)
        s2 == [s1 EXCEPT !.wavHeaderProcessed = @ \/ bytes >= 0,
                         !.nChunks = @ + 1]
        s3 == IF pcm > 0
              THEN LET q == [s2 EXCEPT !.audioBufferQueue =
                                 Append(@, [idx |-> s2.nChunks, len |-> pcm]),
                                       !.enqInPhase = @ + 1]
                   IN IF q.isBuffering
                      THEN startBufferedPlayback(
                               [q EXCEPT !.isBuffering = FALSE,
                                         !.isAudioPlaying = TRUE], fresh)
                      ELSE processBufferedChunks(q)
              ELSE s2
    IN IF ~s3.isAudioPlaying
       THEN setTimeout([s3 EXCEPT !.isAudioPlaying = TRUE], "safety", SafetyTimeoutMs)
       ELSE s3

\* variant: a payload that does not decode resets the playback state
handleAudioChunk_AbortOnError(s, bytes, fresh) ==
    LET s1 == IF s.conversationState # "speaking" THEN EnterSpeaking(s) ELSE s
        pcm == DecodedSamples(s1.wavHeaderProcessed, bytes)
        s2 == [s1 EXCEPT !.wavHeaderProcessed = @ \/ bytes >= 0,
                         !.nChunks = @ + 1]
        s3 == IF pcm > 0
              THEN LET q == [s2 EXCEPT !.audioBufferQueue =
                                 Append(@, [idx |-> s2.nChunks, len |-> pcm]),
                                       !.enqInPhase = @ + 1]
                   IN IF q.isBuffering /\ Len(q.audioBufferQueue) >= bufferThreshold
                      THEN startBufferedPlayback(
                               [q EXCEPT !.isBuffering = FALSE,
                                         !.isAudioPlaying = TRUE], fresh)
                      ELSE IF ~q.isBuffering /\ Len(q.audioBufferQueue) > 0
                      THEN processBufferedChunks(q)
                      ELSE q
              ELSE resetAudioPlaybackState(s2)
    IN IF ~s3.isAudioPlaying
       THEN setTimeout([s3 EXCEPT !.isAudioPlaying = TRUE], "safety", SafetyTimeoutMs)
       ELSE s3

handleAudioChunk(s, bytes, fresh) ==
    LET s1 == IF s.conversationState # "speaking" THEN EnterSpeaking(s) ELSE s
        pcm == DecodedSamples(s1.wavHeaderProcessed, bytes)
        s2 == [s1 EXCEPT !.wavHeaderProcessed = @ \/ bytes >= 0,
                         !.nChunks = @ + 1]
        s3 == IF pcm > 0
              THEN LET q == [s2 EXCEPT !.audioBufferQueue =
                                 Append(@, [idx |-> s2.nChunks, len |-> pcm]),
                                       !.enqInPhase = @ + 1]
                   IN IF q.isBuffering /\ Len(q.audioBufferQueue) >= bufferThreshold
                      THEN startBufferedPlayback(
                               [q EXCEPT !.isBuffering = FALSE,
                                         !.isAudioPlaying = TRUE], fresh)
                      ELSE IF ~q.isBuffering /\ Len(q.audioBufferQueue) > 0
                      THEN processBufferedChunks(q)
                      ELSE q
              ELSE s2
    IN IF ~s3.isAudioPlaying
       THEN setTimeout([s3 EXCEPT !.isAudioPlaying = TRUE], "safety", SafetyTimeoutMs)
       ELSE s3

\* the callback of the safety timeout armed in handleAudioChunk
SafetyTimeout(s) ==
    IF s.conversationState = "speaking" /\ s.isConversationActive
    THEN handleAudioComplete([s EXCEPT !.forcedInPhase = Min(@ + 1, 2)],
                             Len(s.audioBufferQueue) + 1)
    ELSE s

\* variant: the callback resumes listening whatever the session is doing
DrainTimeout_Unguarded(s) ==
    LET s1 == [s EXCEPT !.isBuffering = TRUE, !.isAudioPlaying = FALSE]
    IN showLiveTranscript(updateStatus(
           [s1 EXCEPT !.conversationState = "listening"], "info"))

\* the callback of the timer armed in handleAudioComplete
DrainTimeout(s) ==
    LET s1 == [s EXCEPT !.isBuffering = TRUE, !.isAudioPlaying = FALSE]
    IN IF s1.isConversationActive /\ s1.conversationState = "speaking"
       THEN showLiveTranscript(updateStatus(
                [s1 EXCEPT !.conversationState = "listening"], "info"))
       ELSE s1

\* ------------------------------------------------ turn-taking machine
\* websocket.close() on socket w
CloseSocket(ws, w) ==
    [ws EXCEPT ![w] = IF @ = "connecting" THEN "failing"
                      ELSE IF @ = "open" THEN "closing" ELSE @]

closeConnections(s) ==
    LET s0 == Teardown(s)
        s1 == IF s0.audioContext # "null"
              THEN [s0 EXCEPT !.audioContext = "null", !.processors = @ - 1]
              ELSE s0
        s2 == IF s1.websocket # 0
              THEN [s1 EXCEPT !.wsState = CloseSocket(@, s1.websocket),
                              !.websocket = 0]
              ELSE s1
    IN IF s2.audioPlaybackContext # "null"
       THEN [s2 EXCEPT !.audioPlaybackContext = "null", !.currentTime = 0,
                       !.resumeRequested = FALSE, !.resumeCallbacks = 0]
       ELSE s2

\* variant: the conversation stays marked active
resetToIdle_StaysActive(s) ==
    closeConnections([s EXCEPT !.conversationState = "idle"])

resetToIdle(s) ==
    closeConnections([s EXCEPT !.conversationState = "idle",
                               !.isConversationActive = FALSE])

\* the callback of the timer armed in endConversation
EndTimeout(s) ==
    updateStatus(resetToIdle(closeConnections(s)), "ended")

\* variant: the goodbye is sent on any socket the global refers to
endConversation_AnySocket(s) ==
    LET s1 == updateStatus([Teardown(s) EXCEPT !.conversationState = "ending",
                                               !.isConversationActive = FALSE],
                           "info")
        s2 == IF s1.websocket # 0
              THEN Send(s1, [type |-> "end_conversation",
                             session_id |-> sessionId])
              ELSE s1
    IN setTimeout(s2, "end", EndTimeoutMs)

\* variant: the end action leaves the conversation marked active
endConversation_StaysActive(s) ==
    LET s1 == updateStatus([Teardown(s) EXCEPT !.conversationState = "ending"],
                           "info")
        s2 == IF s1.websocket # 0 /\ s1.wsState[s1.websocket] = "open"
              THEN Send(s1, [type |-> "end_conversation",
                             session_id |-> sessionId])
              ELSE s1
    IN setTimeout(s2, "end", EndTimeoutMs)

endConversation(s) ==
    LET s1 == updateStatus([Teardown(s) EXCEPT !.conversationState = "ending",
                                               !.isConversationActive = FALSE],
                           "info")
        s2 == IF s1.websocket # 0 /\ s1.wsState[s1.websocket] = "open"
              THEN Send(s1, [type |-> "end_conversation",
                             session_id |-> sessionId])
              ELSE s1
    IN setTimeout(s2, "end", EndTimeoutMs)

\* the socket that new WebSocket(wsUrl) makes: the first one not yet used
FreshSocket(s) == CHOOSE w \in Sockets :
                      /\ s.wsState[w] = "none"
                      /\ \A v \in Sockets : v < w => s.wsState[v] # "none"

\* startConversation with connectToLLMWebSocket
startConversation(s) ==
    LET s1 == [s EXCEPT !.conversationState = "listening",
                        !.isConversationActive = TRUE]
    IN IF s1.websocket = 0 \/ s1.wsState[s1.websocket] # "open"
       THEN [updateStatus(s1, "info") EXCEPT
                       !.chatHistory = << >>,
                       !.websocket = FreshSocket(s),
                       !.wsState[FreshSocket(s)] = "connecting"]
       ELSE showLiveTranscript(updateStatus(s1, "info"))

handleConversationButton(s) ==
    IF s.conversationState = "idle" THEN startConversation(s)
    ELSE IF s.conversationState \in {"listening", "processing", "speaking"}
    THEN endConversation(s)
    ELSE s

\* websocket.onopen up to the await of getUserMedia.  With API keys stored
\* it first calls send on the global websocket, which throws and ends the
\* handler when the global is null or refers to a socket still connecting,
\* and sends nothing on a socket closing or closed.
onopen(s) ==
    LET request(r) == [updateStatus(r, "info") EXCEPT !.micPending = @ + 1]
    IN IF ~s.env.keys THEN request(s)
       ELSE IF s.websocket = 0 \/ s.wsState[s.websocket] = "connecting" THEN s
       ELSE IF s.wsState[s.websocket] = "open"
       THEN request(Send(s, [type |-> "user_api_keys",
                             session_id |-> sessionId]))
       ELSE request(s)

\* setupAudioRecording after getUserMedia resolved
MicrophoneGranted(s) ==
    showLiveTranscript(updateStatus(
        [s EXCEPT !.micPending = @ - 1, !.audioContext = "running",
                  !.processors = @ + 1], "info"))

\* variant: a captured block is sent in every phase
onaudioprocess_AnyPhase(s) ==
    IF s.websocket # 0 /\ s.wsState[s.websocket] = "open"
    THEN Send(s, [type |-> "pcm", session_id |-> ""])
    ELSE s

\* processor.onaudioprocess: a block of microphone samples was captured
onaudioprocess(s) ==
    IF s.conversationState # "listening" THEN s
    ELSE IF s.websocket # 0 /\ s.wsState[s.websocket] = "open"
    THEN Send(s, [type |-> "pcm", session_id |-> ""])
    ELSE s

\* setupAudioRecording after getUserMedia rejected
MicrophoneDenied(s) ==
    resetToIdle(updateStatus([s EXCEPT !.micPending = @ - 1], "mic_denied"))

\* variant: every close surfaces the connection-lost notice
onclose_Always(s, w) ==
    resetToIdle(updateStatus([s EXCEPT !.lostCount[w] = @ + 1],
                             "connection_lost"))

\* websocket.onclose of socket w
onclose(s, w) ==
    IF s.isConversationActive
    THEN resetToIdle(updateStatus([s EXCEPT !.lostCount[w] = @ + 1],
                                  "connection_lost"))
    ELSE s

\* websocket.onerror
onerror(s) == resetToIdle(updateStatus(s, "connection_error"))

\* variant: the history keeps the newest turn only
addMessageToChat_Replace(s, sender, message) ==
    IF s.env.ui
    THEN [s EXCEPT !.chatHistory = <<[sender |-> sender, message |-> message]>>]
    ELSE s

addMessageToChat(s, sender, message) ==
    IF s.env.ui
    THEN [s EXCEPT !.chatHistory = Append(@, [sender |-> sender,
                                              message |-> message])]
    ELSE s

\* variant: a transcript is shown whatever the phase
handleTranscriptMessage_AnyPhase(s, text) ==
    updateStatus(updateLiveTranscript(s, text), "info")

handleTranscriptMessage(s, text) ==
    IF s.conversationState = "listening"
    THEN updateStatus(updateLiveTranscript(s, text), "info")
    ELSE s

\* variant: the turn is put in front of the history
handleTurnComplete_Front(s, final_transcript) ==
    LET s1 == updateStatus([s EXCEPT !.conversationState = "processing"], "info")
    IN IF s1.env.ui
       THEN [s1 EXCEPT !.chatHistory =
                 <<[sender |-> "user", message |-> final_transcript]>> \o @]
       ELSE s1

handleTurnComplete(s, final_transcript) ==
    addMessageToChat(updateStatus([s EXCEPT !.conversationState = "processing"],
                                  "info"),
                     "user", final_transcript)

handleChatStarted(s, fresh) ==
    initializeAudioPlayback(updateStatus(s, "info"), fresh)

handleLLMResponseComplete(s, llm_response) ==
    addMessageToChat(s, "ai", llm_response)

handleChatComplete(s) == resetAudioPlaybackState(s)

\* a message of the channel; the fields a type does not carry are 0 or ""
Message(type, text, bytes, total) ==
    [type |-> type, text |-> text, audio_bytes |-> bytes, total_chunks |-> total]

\* variant: a message of an unknown type resets the session
handleWebSocketMessage_UnknownResets(s, data, fresh) ==
    CASE data.type = "connection" -> updateStatus(s, "info")
      [] data.type = "session_opened" -> updateStatus(s, "info")
      [] data.type = "transcript" -> handleTranscriptMessage(s, data.text)
      [] data.type = "turn_complete" -> handleTurnComplete(s, data.text)
      [] data.type = "chat_started" -> handleChatStarted(s, fresh)
      [] data.type = "audio_chunk" -> handleAudioChunk(s, data.audio_bytes, fresh)
      [] data.type = "llm_response_complete" ->
             handleLLMResponseComplete(s, data.text)
      [] data.type = "chat_complete" -> handleChatComplete(s)
      [] data.type = "error" -> updateStatus(s, "info")
      [] data.type = "audio_complete" -> handleAudioComplete(s, data.total_chunks)
      [] data.type = "conversation_ended" -> updateStatus(s, "thanks")
      [] OTHER -> resetToIdle(s)

handleWebSocketMessage(s, data, fresh) ==
    CASE data.type = "connection" -> updateStatus(s, "info")
      [] data.type = "session_opened" -> updateStatus(s, "info")
      [] data.type = "transcript" -> handleTranscriptMessage(s, data.text)
      [] data.type = "turn_complete" -> handleTurnComplete(s, data.text)
      [] data.type = "chat_started" -> handleChatStarted(s, fresh)
      [] data.type = "audio_chunk" -> handleAudioChunk(s, data.audio_bytes, fresh)
      [] data.type = "llm_response_complete" ->
             handleLLMResponseComplete(s, data.text)
      [] data.type = "chat_complete" -> handleChatComplete(s)
      [] data.type = "error" -> updateStatus(s, "info")
      [] data.type = "audio_complete" -> handleAudioComplete(s, data.total_chunks)
      [] data.type = "conversation_ended" -> updateStatus(s, "thanks")
      [] OTHER -> s

\* ------------------------------------------------------- environments
\* env.timed: timers keep their delays; payloads: bytes of the audio payloads
\* the server sends; totals: total_chunks of audio_complete; fresh: the
\* states a new AudioContext may be in (autoplay policy); types: the types
\* of the messages the server sends; out: what is sent is recorded; keys:
\* API keys are stored in the browser
EnvSession ==
    [out |-> FALSE, keys |-> FALSE, timed |-> FALSE, ui |-> FALSE,
     types |-> MessageTypes,
     maxConv |-> MaxConv, maxChunks |-> MaxChunks,
     maxTimers |-> MaxTimers, maxAdvances |-> 0, maxHistory |-> MaxHistory,
     payloads |-> {244}, totals |-> {1}, texts |-> {"hello"},
     fresh |-> {"running"}]
EnvAudio ==
    [out |-> FALSE, keys |-> FALSE, timed |-> FALSE, ui |-> FALSE,
     types |-> MessageTypes,
     maxConv |-> 1, maxChunks |-> AudioMaxChunks,
     maxTimers |-> AudioMaxTimers, maxAdvances |-> AudioMaxAdvances,
     maxHistory |-> 1, payloads |-> {244}, totals |-> {1},
     texts |-> {"hello"}, fresh |-> {"running", "suspended"}]
EnvTimed ==
    [out |-> FALSE, keys |-> FALSE, timed |-> TRUE, ui |-> FALSE,
     types |-> MessageTypes,
     maxConv |-> TimedMaxConv, maxChunks |-> TimedMaxChunks,
     maxTimers |-> TimedMaxTimers, maxAdvances |-> 0, maxHistory |-> 1,
     payloads |-> {244}, totals |-> {1, 6}, texts |-> {"hello"},
     fresh |-> {"running"}]
EnvLive ==
    [out |-> FALSE, keys |-> FALSE, timed |-> TRUE, ui |-> FALSE,
     types |-> MessageTypes,
     maxConv |-> 1, maxChunks |-> LiveMaxChunks,
     maxTimers |-> LiveMaxTimers, maxAdvances |-> 0, maxHistory |-> 1,
     payloads |-> {244}, totals |-> {1}, texts |-> {"hello"},
     fresh |-> {"running"}]
\* payloads of the stream: not base64 (-1), a bare header (44 bytes), a
\* header with 200 bytes of samples or 244 bytes of samples
EnvStream ==
    [out |-> FALSE, keys |-> FALSE, timed |-> FALSE, ui |-> FALSE,
     types |-> {"turn_complete", "chat_started", "audio_chunk",
                "chat_complete", "audio_complete"},
     maxConv |-> 1, maxChunks |-> StreamMaxChunks,
     maxTimers |-> StreamMaxTimers, maxAdvances |-> 0, maxHistory |-> 1,
     payloads |-> {-1, 44, 244}, totals |-> {1}, texts |-> {"hello"},
     fresh |-> {"running", "suspended"}]

EnvDialog ==
    [out |-> TRUE, keys |-> TRUE, timed |-> FALSE, ui |-> TRUE,
     types |-> {"transcript", "turn_complete", "audio_chunk",
                "llm_response_complete", "conversation_ended", "unknown"},
     maxConv |-> 1, maxChunks |-> DialogMaxChunks,
     maxTimers |-> DialogMaxTimers, maxAdvances |-> 0,
     maxHistory |-> DialogMaxHistory,
     payloads |-> {244}, totals |-> {1}, texts |-> {"hello", "bye"},
     fresh |-> {"running"}]

\* payloads of a burst: 100 samples behind a header, 100 samples; the
\* output clock is 0, 0.1 or 0.2 s after the creation of the context
EnvBurst ==
    [out |-> FALSE, keys |-> FALSE, timed |-> FALSE, ui |-> FALSE,
     types |-> {"chat_started", "audio_chunk", "chat_complete",
                "audio_complete"},
     maxConv |-> 1, maxChunks |-> BurstMaxChunks,
     maxTimers |-> 2, maxAdvances |-> 2,
     maxHistory |-> 1, payloads |-> {244, 200}, totals |-> {1},
     texts |-> {"hello"}, fresh |-> {"running", "suspended"}]

\* every message type of the channel, with the status line, the live
\* transcript and the type of the dispatched message recorded
EnvFrame ==
    [out |-> TRUE, keys |-> FALSE, timed |-> FALSE, ui |-> TRUE,
     types |-> MessageTypes,
     maxConv |-> 1, maxChunks |-> FrameMaxChunks,
     maxTimers |-> 1, maxAdvances |-> 0, maxHistory |-> 1,
     payloads |-> {244}, totals |-> {1}, texts |-> {"hello"},
     fresh |-> {"running"}]

EnvEnd ==
    [out |-> FALSE, keys |-> FALSE, timed |-> FALSE, ui |-> FALSE,
     types |-> {"turn_complete", "chat_started", "audio_chunk",
                "audio_complete"},
     maxConv |-> EndMaxConv, maxChunks |-> EndMaxChunks,
     maxTimers |-> EndMaxTimers, maxAdvances |-> 0,
     maxHistory |-> 1,
     payloads |-> {244}, totals |-> {1}, texts |-> {"hello"},
     fresh |-> {"running"}]

\* ------------------------------------------------------------- actions
\* the state after the script has loaded
InitIn(e) ==
    /\ env = e
    /\ conversationState = "idle"
    /\ websocket = 0
    /\ wsState = [w \in Sockets |-> "none"]
    /\ audioContext = "null"
    /\ micPending = 0
    /\ isConversationActive = FALSE
    /\ chatHistory = << >>
    /\ audioPlaybackContext = "null"
    /\ currentTime = 0
    /\ resumeRequested = FALSE
    /\ resumeCallbacks = 0
    /\ audioPlayheadTime = 0
    /\ audioBufferQueue = << >>
    /\ isBuffering = TRUE
    /\ isAudioPlaying = FALSE
    /\ wavHeaderProcessed = FALSE
    /\ timers = NoTimers
    /\ status = "info"
    /\ transcriptText = ""
    /\ processors = 0
    /\ sent = << >>
    /\ received = ""
    /\ codec = NoSample
    /\ nChunks = 0
    /\ scheduled = << >>
    /\ lastStarted = 0
    /\ segFrom = 0
    /\ enqInPhase = 0
    /\ forcedInPhase = 0
    /\ completeInPhase = FALSE
    /\ drainHold = 0
    /\ lostCount = [w \in Sockets |-> 0]
    /\ lastTotal = 0
    /\ lastWait = WaitTime(0)

Init == InitIn(EnvSession)

AllMessages ==
    {Message(t, "", 0, 0) : t \in {"connection", "session_opened", "chat_started",
                                   "chat_complete", "error", "conversation_ended",
                                   "unknown"}}
    \cup {Message(t, x, 0, 0) : t \in {"transcript", "turn_complete",
                                       "llm_response_complete"}, x \in env.texts}
    \cup {Message("audio_chunk", "", b, 0) : b \in env.payloads}
    \cup {Message("audio_complete", "", 0, n) : n \in env.totals}
\* the messages the server of the environment sends
InboundMessages == {m \in AllMessages : m.type \in env.types}

\* what the bounds of the environment allow: a step is taken only if the
\* state it leads to is within them
Within(s) ==
    /\ TimerCount(s.timers) <= s.env.maxTimers
    /\ s.nChunks <= s.env.maxChunks
    /\ Len(s.chatHistory) <= s.env.maxHistory
MayConnect == \E w \in 1..env.maxConv : wsState[w] = "none"

\* the history of a Speaking phase ends with the phase
PhaseHistory(s) ==
    IF conversationState = "speaking" /\ s.conversationState # "speaking"
    THEN [s EXCEPT !.scheduled = << >>, !.segFrom = 0, !.enqInPhase = 0,
                   !.forcedInPhase = 0, !.completeInPhase = FALSE,
                   !.drainHold = 0]
    ELSE s

Step(s) == \E t \in {s} : Within(t) /\ Becomes(PhaseHistory(t))

\* a block of samples reaches a capture processor
AudioProcess ==
    /\ processors > 0
    /\ Step(onaudioprocess(St))

\* the user clicks the conversation button
Click ==
    /\ conversationState = "idle" => MayConnect
    /\ Step(handleConversationButton(St))

\* the handshake of socket w completes
WsOpen(w) ==
    /\ wsState[w] = "connecting"
    /\ Step(onopen([St EXCEPT !.wsState[w] = "open"]))

\* a message arrives on socket w
WsMessage(w, m) ==
    /\ wsState[w] = "open"
    /\ \E fresh \in (IF m.type \in {"chat_started", "audio_chunk"}
                     THEN env.fresh ELSE {"running"}) :
         LET complete == m.type = "audio_complete" /\ conversationState = "speaking"
             s0 == IF m.type = "audio_chunk" THEN St
                   ELSE [St EXCEPT !.segFrom = Len(scheduled),
                                   !.completeInPhase = @ \/ complete,
                                   !.drainHold =
                                       IF complete /\ env.timed
                                       THEN Max(@, Ticks(WaitTime(m.total_chunks)))
                                       ELSE @]
             s1 == IF env.out THEN [s0 EXCEPT !.received = m.type] ELSE s0
         IN Step(handleWebSocketMessage(s1, m, fresh))

\* socket w is closed: by the peer, or the closing handshake started by
\* websocket.close() completes
WsClose(w) ==
    /\ wsState[w] \in {"open", "closing"}
    /\ Step(onclose([St EXCEPT !.wsState[w] = "closed"], w))

\* the connection of socket w fails: error event, then close event
WsError(w) ==
    /\ wsState[w] \in {"connecting", "open", "failing"}
    /\ Step(onclose(onerror([St EXCEPT !.wsState[w] = "closed"]), w))

MicGranted ==
    /\ micPending > 0
    /\ Step(MicrophoneGranted(St))

MicDenied ==
    /\ micPending > 0
    /\ Step(MicrophoneDenied(St))

\* a due timer runs its callback
TimerCallback(s, kind) ==
    CASE kind = "safety" -> SafetyTimeout(s)
      [] kind = "drain" -> DrainTimeout(s)
      [] kind = "end" -> EndTimeout(s)

FireTimer(r) ==
    /\ r.left = 0
    /\ Step(TimerCallback([St EXCEPT !.timers = RemoveTimer(@, r)], r.kind))

\* 1000 ms pass; no timer is overdue
Tick ==
    /\ \A r \in DOMAIN timers : r.left > 0
    /\ Step([St EXCEPT
           !.timers = [r \in {[x EXCEPT !.left = @ - 1] : x \in DOMAIN timers} |->
                          timers[[r EXCEPT !.left = @ + 1]]],
           !.drainHold = Max(0, @ - 1)])

\* the output clock of the running playback context advances by 0.1 s
AdvanceOutputClock ==
    /\ audioPlaybackContext = "running"
    /\ currentTime < env.maxAdvances * PlayheadLead
    /\ Step([St EXCEPT !.currentTime = @ + PlayheadLead])

RECURSIVE RunCallbacks(_, _)
RunCallbacks(s, n) ==
    IF n = 0 THEN s ELSE RunCallbacks(processBufferedChunks(s), n - 1)

\* the resume() promise of the playback context resolves
ResumeResolved ==
    /\ audioPlaybackContext = "suspended"
    /\ resumeRequested
    /\ Step(RunCallbacks([St EXCEPT !.audioPlaybackContext = "running",
                                    !.resumeRequested = FALSE,
                                    !.resumeCallbacks = 0],
                         resumeCallbacks))

\* handleAudioComplete computes the delay for some total_chunks
ComputeWait(n) ==
    /\ lastTotal' = n
    /\ lastWait' = WaitTime(n)
    /\ UNCHANGED <<env, conversationState, websocket, wsState, audioContext,
                   micPending, isConversationActive, chatHistory,
                   audioPlaybackContext, currentTime, resumeRequested,
                   resumeCallbacks, audioPlayheadTime, audioBufferQueue,
                   isBuffering, isAudioPlaying, wavHeaderProcessed, timers,
                   status, transcriptText, processors, sent, received, codec, nChunks,
                   scheduled, lastStarted, segFrom,
                   enqInPhase, forcedInPhase, completeInPhase, drainHold,
                   lostCount>>

\* some due timer runs its callback
FireDue == \E r \in DOMAIN timers : FireTimer(r)

Next ==
    \/ Click
    \/ \E w \in Sockets : WsOpen(w)
    \/ \E w \in Sockets : \E m \in InboundMessages : WsMessage(w, m)
    \/ \E w \in Sockets : WsClose(w)
    \/ \E w \in Sockets : WsError(w)
    \/ MicGranted
    \/ MicDenied
    \/ FireDue

Spec == Init /\ [][Next]_vars

InitAudio == InitIn(EnvAudio)

NextAudio ==
    \/ Click
    \/ \E w \in Sockets : WsOpen(w)
    \/ \E w \in Sockets : \E m \in InboundMessages : WsMessage(w, m)
    \/ \E w \in Sockets : WsClose(w)
    \/ FireDue
    \/ AdvanceOutputClock
    \/ ResumeResolved

SpecAudio == InitAudio /\ [][NextAudio]_vars

InitTimed == InitIn(EnvTimed)

NextTimed ==
    \/ Click
    \/ \E w \in Sockets : WsOpen(w)
    \/ \E w \in Sockets : \E m \in InboundMessages : WsMessage(w, m)
    \/ \E w \in Sockets : WsClose(w)
    \/ FireDue
    \/ Tick

SpecTimed == InitTimed /\ [][NextTimed]_vars

InitLive == InitIn(EnvLive)

\* the event loop runs the callback of a due timer, and time passes
SpecLive ==
    /\ InitLive
    /\ [][NextTimed]_vars
    /\ WF_vars(Tick)
    /\ WF_vars(FireDue)

InitStream == InitIn(EnvStream)

NextStream ==
    \/ Click
    \/ \E w \in Sockets : WsOpen(w)
    \/ \E w \in Sockets : \E m \in InboundMessages : WsMessage(w, m)
    \/ \E w \in Sockets : WsClose(w)
    \/ FireDue
    \/ ResumeResolved

SpecStream == InitStream /\ [][NextStream]_vars

InitDialog == InitIn(EnvDialog)

NextDialog ==
    \/ Click
    \/ \E w \in Sockets : WsOpen(w)
    \/ \E w \in Sockets : \E m \in InboundMessages : WsMessage(w, m)
    \/ \E w \in Sockets : WsClose(w)
    \/ \E w \in Sockets : WsError(w)
    \/ MicGranted
    \/ MicDenied
    \/ AudioProcess
    \/ FireDue

SpecDialog == InitDialog /\ [][NextDialog]_vars

InitEnd == InitIn(EnvEnd)

NextEnd ==
    \/ Click
    \/ \E w \in Sockets : WsOpen(w)
    \/ \E w \in Sockets : \E m \in InboundMessages : WsMessage(w, m)
    \/ \E w \in Sockets : WsClose(w)
    \/ \E w \in Sockets : WsError(w)
    \/ MicGranted
    \/ FireDue

\* the callback of a pending timer of one kind runs
FireKind(kind) == \E r \in DOMAIN timers : r.kind = kind /\ FireTimer(r)

\* the end of a conversation: messages, channel events and the grant of
\* the microphone in any order; the delays are left open, and the event
\* loop eventually runs the callback of every timer that stays pending
SpecEnd ==
    /\ InitEnd
    /\ [][NextEnd]_vars
    /\ \A kind \in {"safety", "drain", "end"} : WF_vars(FireKind(kind))

InitFrame == InitIn(EnvFrame)

NextFrame ==
    \/ Click
    \/ \E w \in Sockets : WsOpen(w)
    \/ \E w \in Sockets : \E m \in InboundMessages : WsMessage(w, m)
    \/ \E w \in Sockets : WsClose(w)
    \/ FireDue

\* one conversation in which the server may send a message of any type
SpecFrame == InitFrame /\ [][NextFrame]_vars

InitBurst == InitIn(EnvBurst)

NextBurst ==
    \/ Click
    \/ \E w \in Sockets : WsOpen(w)
    \/ \E w \in Sockets : \E m \in InboundMessages : WsMessage(w, m)
    \/ FireDue
    \/ AdvanceOutputClock
    \/ ResumeResolved

SpecBurst == InitBurst /\ [][NextBurst]_vars

InitCodec == InitIn(EnvSession)

\* a sample k / SampleDenominator of [-1, 1] goes through both conversions
RoundTrip(k) ==
    /\ codec.stage = "none"
    /\ Step([St EXCEPT !.codec = RoundTripOf(k, SampleDenominator)])

NextCodec ==
    /\ codec.stage = "none"
    /\ \E k \in (-SampleDenominator)..SampleDenominator : RoundTrip(k)

SpecCodec == InitCodec /\ [][NextCodec]_vars

InitWait == InitIn(EnvSession)

NextWait == \E n \in 0..MaxWaitInput : ComputeWait(n)

SpecWait == InitWait /\ [][NextWait]_vars

\* ============================================================== claims
Speaking == conversationState = "speaking"
\* the chunks scheduled since the last inbound message other than audio_chunk
Segment == (segFrom + 1)..Len(scheduled)
EndOf(i) == scheduled[i].start + scheduled[i].dur

\* C1: within one Speaking phase, with no other inbound message in between,
\* the intervals [start, start + duration) handed to the output never
\* overlap and their start times do not decrease in scheduling order.
C1_IntervalsDoNotOverlap ==
    Speaking =>
        \A i, j \in Segment :
            i < j => /\ EndOf(i) <= scheduled[j].start
                     /\ scheduled[i].start <= scheduled[j].start

\* C1 witness: three chunks of one segment are scheduled, one of them after
\* the output clock had advanced past the playhead (an underrun).
C1_Witness ==
    /\ Speaking
    /\ Len(scheduled) - segFrom >= 3
    /\ \E i \in Segment : /\ i > segFrom + 1
                          /\ scheduled[i].at > scheduled[i - 1].at
                          /\ scheduled[i].start = scheduled[i].at + SnapEpsilon

\* C2 (as claimed): during a Speaking phase the playhead is never below the
\* end of a chunk already scheduled in that phase.
C2_PlayheadNotBelowScheduled ==
    Speaking => \A i \in 1..Len(scheduled) : audioPlayheadTime >= EndOf(i)

SchedulesNow == Len(scheduled') > 0 /\ scheduled' # scheduled
\* a step that handles an audio_chunk message
ChunkStep == nChunks' = nChunks + 1

C5_SpeakingOnlyFromProcessing ==
    [][conversationState' = "speaking" =>
           conversationState \in {"processing", "speaking"}]_vars

\* C6 (as claimed): the safety timeout forces completion at most once in a
\* Speaking phase, and never after audio_complete was processed in it.
C6_GuardFiresOnce ==
    [][forcedInPhase' > forcedInPhase =>
           (forcedInPhase = 0 /\ ~completeInPhase)]_vars

\* C7 (as claimed): a Speaking phase of an active session that receives no
\* audio_complete is eventually left.
C7_SpeakingIsLeft ==
    (Speaking /\ isConversationActive) ~> (~Speaking \/ completeInPhase)

\* C8 (as claimed): the phase does not return to Listening before
\* t + clamp(1000 n, 2000, 5000) of an audio_complete processed in it.
C8_DrainBeforeResume ==
    [][(Speaking /\ conversationState' = "listening") => drainHold = 0]_vars

\* C9: the drain delay is min(max(1000 total_chunks, 2000), 5000) ms, lies
\* in [2000, 5000], and is 4000 for total_chunks = 4.
C9_WaitIsClamped ==
    /\ lastWait = Min(Max(1000 * lastTotal, 2000), 5000)
    /\ lastWait >= 2000 /\ lastWait <= 5000
    /\ lastTotal = 4 => lastWait = 4000

\* C9 witness: the delay was computed for total_chunks = 4.
C9_Witness == lastTotal = 4 /\ lastWait = 4000

Released(w) ==
    /\ conversationState' = "idle"
    /\ ~isConversationActive'
    /\ websocket' = 0
    /\ wsState'[w] = "closed"

\* C10: a close of the channel while the session is active, and a transport
\* error in any phase, leave the phase Idle, the session inactive and the
\* channel released; the close while active surfaces the connection-lost
\* notice, and no channel surfaces it twice.
C10_TransportFailureResets ==
    /\ [][\A w \in Sockets :
              (wsState[w] # "closed" /\ wsState'[w] = "closed") =>
                  /\ (isConversationActive /\ WsClose(w)) =>
                         (Released(w) /\ lostCount'[w] = 1)
                  /\ WsError(w) => (Released(w) /\ lostCount'[w] = lostCount[w])]_vars
    /\ [](\A w \in Sockets : lostCount[w] <= 1)

\* C10 witness: a channel was closed while the session was active.
C10_Witness ==
    \E w \in Sockets : /\ lostCount[w] = 1
                       /\ wsState[w] = "closed"
                       /\ conversationState = "idle"
                       /\ websocket = 0

\* the timer whose callback runs in this step was armed before a teardown
StaleTimerFires ==
    \E r \in DOMAIN timers : r.stale /\ FireTimer(r)

\* C11 (as claimed): a timer armed before a teardown (closeConnections,
\* resetToIdle, endConversation) changes neither the phase, the active flag
\* nor the connections when it fires after that teardown.  (The claim also
\* covers the playback state, which such a timer changes even sooner.)
C11_TeardownCancelsTimers ==
    [][StaleTimerFires =>
           UNCHANGED <<conversationState, isConversationActive, websocket,
                       wsState, audioContext, audioPlaybackContext>>]_vars

\* C12 (as claimed): every teardown (a step that brings the phase to Idle)
\* leaves the playback queue empty and the buffering, playing and header
\* flags at the values resetAudioPlaybackState gives them.
C12_TeardownResetsPlayback ==
    [][(conversationState # "idle" /\ conversationState' = "idle") =>
           /\ audioBufferQueue' = << >>
           /\ isBuffering'
           /\ ~isAudioPlaying'
           /\ ~wavHeaderProcessed']_vars

\* C13 (as claimed): base64ToPCMFloat32 strips the 44-byte header from no
\* payload handled while the phase is already Speaking, a payload after the
\* first of its phase.  (The claim adds that the first payload of every
\* phase is stripped.)
C13_HeaderStrippedOncePerPhase ==
    [][(ChunkStep /\ Speaking) => wavHeaderProcessed]_vars

\* the source.start calls of this step, in the order they are made
Started ==
    IF /\ Len(scheduled') >= Len(scheduled)
       /\ SubSeq(scheduled', 1, Len(scheduled)) = scheduled
    THEN SubSeq(scheduled', Len(scheduled) + 1, Len(scheduled'))
    ELSE scheduled'
\* the decoded chunks this step can take: those queued and the one arriving
Decoded ==
    {audioBufferQueue[i].idx : i \in 1..Len(audioBufferQueue)}
        \cup (IF ChunkStep THEN {nChunks'} ELSE {})

\* C14: every chunk passed to scheduleChunkAtPlayhead is a decoded chunk
\* that arrived after every chunk passed to it before, in this step or in
\* any earlier one.
C14_ScheduledInArrivalOrder ==
    [][\A i \in 1..Len(Started) :
           /\ Started[i].idx \in Decoded
           /\ Started[i].idx >
                  (IF i = 1 THEN lastStarted ELSE Started[i - 1].idx)]_vars

\* C14 witness: playback was deferred by a suspended context and the
\* chunks of the queue were then started, a dropped payload among them.
C14_Witness ==
    /\ audioPlaybackContext = "suspended"
    /\ Len(scheduled) >= 3
    /\ \E i \in 1..(Len(scheduled) - 1) :
           scheduled[i + 1].idx > scheduled[i].idx + 1

\* a step that handles an audio_chunk whose payload of b bytes decodes to
\* null or to no sample (Failed), or to samples
ChunkOf(b) == \E w \in Sockets : WsMessage(w, Message("audio_chunk", "", b, 0))
FailedChunk ==
    \E b \in env.payloads :
        DecodedSamples(wavHeaderProcessed, b) <= 0 /\ ChunkOf(b)
GoodChunk ==
    \E b \in env.payloads :
        DecodedSamples(wavHeaderProcessed, b) > 0 /\ ChunkOf(b)

PcmFrames(q) == {i \in 1..Len(q) : q[i].type = "pcm"}
ChannelOpen == websocket # 0 /\ wsState[websocket] = "open"

\* C16: a step sends a PCM frame only if it is the capture of a block while
\* the phase is Listening and the channel is open, and then it sends one
\* frame; a block captured in any other phase or without an open channel
\* sends nothing, and since no other step sends a frame it is never sent
\* later.
C16_PcmOnlyWhileListening ==
    [][/\ PcmFrames(sent') # {} =>
              /\ conversationState = "listening"
              /\ ChannelOpen
              /\ AudioProcess
              /\ Len(sent') = 1
       /\ (AudioProcess /\ ~(conversationState = "listening" /\ ChannelOpen))
              => sent' = << >>
      ]_vars

\* C16 witness: a frame was sent while Listening after a turn had been
\* taken, i.e. blocks captured during Processing or Speaking went nowhere
C16_Witness ==
    /\ PcmFrames(sent) # {}
    /\ conversationState = "listening"
    /\ nChunks > 0

\* C17: a turn_complete message with final_transcript T received while the
\* phase is Listening makes the phase Processing and appends the one turn
\* (user, T) at the end of the chat history, the turns before it unchanged.
C17_TurnCompleteAppendsUserTurn ==
    [][\A T \in env.texts :
           (/\ conversationState = "listening"
            /\ \E w \in Sockets : WsMessage(w, Message("turn_complete", T, 0, 0)))
           => /\ conversationState' = "processing"
              /\ chatHistory' = Append(chatHistory,
                                        [sender |-> "user", message |-> T])
      ]_vars

\* C17 witness: the turn of the user was appended after an earlier turn, in
\* a conversation that has not left Listening before
C17_Witness ==
    /\ conversationState = "processing"
    /\ nChunks = 0
    /\ Len(chatHistory) = 2
    /\ chatHistory[1] = [sender |-> "ai", message |-> "hello"]
    /\ chatHistory[2] = [sender |-> "user", message |-> "bye"]

\* the variables of the program, without what the last handler sent
ProgramState ==
    <<conversationState, websocket, wsState, audioContext, micPending,
      isConversationActive, chatHistory, audioPlaybackContext, currentTime,
      resumeRequested, resumeCallbacks, audioPlayheadTime, audioBufferQueue,
      isBuffering, isAudioPlaying, wavHeaderProcessed, timers, status,
      transcriptText, processors>>

\* C18: a click on the button in Listening, Processing or Speaking makes
\* the phase Ending and clears the active flag, and sends the one message
\* end_conversation with the session id if the channel is open and nothing
\* otherwise; a click in Ending changes nothing and sends nothing.
C18_EndActionEntersEnding ==
    [][Click =>
           /\ conversationState \in {"listening", "processing", "speaking"} =>
                  /\ conversationState' = "ending"
                  /\ ~isConversationActive'
                  /\ sent' = IF ChannelOpen
                             THEN <<[type |-> "end_conversation",
                                     session_id |-> sessionId]>>
                             ELSE << >>
           /\ conversationState = "ending" =>
                  /\ UNCHANGED ProgramState
                  /\ sent' = << >>
      ]_vars

\* C18 witness: the conversation was ended from Speaking with the channel
\* open, and the goodbye is the one message sent
C18_Witness ==
    /\ conversationState = "ending"
    /\ ~isConversationActive
    /\ scheduled # << >> \/ audioBufferQueue # << >>
    /\ sent = <<[type |-> "end_conversation", session_id |-> sessionId]>>

\* C19: a conversation_ended message received while the phase is Ending
\* makes the phase Idle, closes the channel and releases the playback
\* context, without waiting for the timer armed by endConversation.
C19_ConversationEndedReturnsToIdle ==
    [][(/\ conversationState = "ending"
        /\ \E w \in Sockets :
               WsMessage(w, Message("conversation_ended", "", 0, 0)))
       => /\ conversationState' = "idle"
          /\ websocket' = 0
          /\ audioPlaybackContext' = "null"
      ]_vars

\* the phase is Idle and the channel, the capture context with its
\* processor and the playback context are released
IdleReleased ==
    /\ conversationState = "idle"
    /\ websocket = 0
    /\ \A w \in Sockets : wsState[w] \notin {"connecting", "open"}
    /\ audioContext = "null"
    /\ processors = 0
    /\ audioPlaybackContext = "null"

\* C20 (as claimed): after the user ended the conversation (the phase became
\* Ending) the phase is eventually Idle with the channel, every capture
\* context and the playback context released, whatever messages and channel
\* events come in between, provided the callbacks of pending timers run.
C20_EndReachesIdle == (conversationState = "ending") ~> IdleReleased

\* C21: an inbound message of a type the dispatcher does not know leaves the
\* phase, the active flag, the history, the queue, the playhead, the
\* buffering, playing and header flags and the pending timers unchanged.
C21_UnknownTypeIgnored ==
    [][(/\ received' = "unknown"
        /\ \E w \in Sockets : WsMessage(w, Message("unknown", "", 0, 0)))
       => UNCHANGED <<conversationState, isConversationActive, chatHistory,
                      audioBufferQueue, audioPlayheadTime, isBuffering,
                      isAudioPlaying, wavHeaderProcessed, timers>>]_vars

\* C21 witness: a message of an unknown type was dispatched in a Speaking
\* phase with a chunk queued, a timer pending and a turn in the history
C21_Witness ==
    /\ received = "unknown"
    /\ conversationState = "speaking"
    /\ isConversationActive
    /\ audioBufferQueue # << >>
    /\ timers # NoTimers
    /\ chatHistory # << >>

\* C22: a sample x of [-1, 1] encoded by the capture path and decoded by the
\* playback path gives y with |x - y| <= 1/32768; the encoded value lies in
\* [-32768, 32767] and the decoded one in [-1, 1).
C22_RoundTripWithinOneStep ==
    codec.stage = "decoded" =>
        /\ codec.x * Int16Scale <= (codec.y + 1) * SampleDenominator
        /\ codec.x * Int16Scale >= (codec.y - 1) * SampleDenominator
        /\ codec.int16 >= Int16Min /\ codec.int16 <= Int16Max
        /\ codec.y >= -Int16Scale /\ codec.y < Int16Scale

\* C22 witness: the sample 1.0, which the clamp brings to 32767
C22_Witness ==
    /\ codec.stage = "decoded"
    /\ codec.x = SampleDenominator
    /\ codec.int16 = Int16Max
    /\ codec.y = Int16Max

\* a step that handles an audio_chunk decoding to n samples
ChunkOfSamples(n) ==
    \E b \in env.payloads : DecodedSamples(wavHeaderProcessed, b) = n /\ ChunkOf(b)
\* the scheduler was initialised, is buffering and holds k chunks of n samples
Buffered(k, n) ==
    /\ audioPlaybackContext # "null"
    /\ isBuffering
    /\ Len(audioBufferQueue) = k
    /\ \A i \in 1..k : audioBufferQueue[i].len = n
\* the step starts the two queued chunks and the arriving one, in this
\* order, each for n samples, one after the other, and empties the queue
StartsThree(n) ==
    /\ Len(Started) = bufferThreshold
    /\ Started[1].idx = audioBufferQueue[1].idx
    /\ Started[2].idx = audioBufferQueue[2].idx
    /\ Started[3].idx = nChunks'
    /\ \A i \in 1..3 : Started[i].dur = n
    /\ Started[2].start = Started[1].start + n
    /\ Started[3].start = Started[2].start + n
    /\ audioBufferQueue' = << >>

\* C23 (as claimed): after initialisation the first two chunks of 100
\* samples schedule nothing and the third schedules the three.
C23_ThirdChunkStartsThree ==
    [][(ChunkStep /\ ChunkOfSamples(100)) =>
           /\ (Buffered(0, 100) \/ Buffered(1, 100)) => Started = << >>
           /\ Buffered(2, 100) => StartsThree(100)]_vars

\* C23 (amended): the third chunk schedules the three if the playback
\* context is running; if it is still suspended the three stay queued and
\* are scheduled, contiguous and in order, when its resume completes.
C23_ThirdChunkStartsThreeWhenRunning ==
    [][/\ (ChunkStep /\ ChunkOfSamples(100)) =>
              /\ (Buffered(0, 100) \/ Buffered(1, 100)) =>
                     /\ Started = << >>
                     /\ Len(audioBufferQueue') = Len(audioBufferQueue) + 1
              /\ (Buffered(2, 100) /\ audioPlaybackContext = "running") =>
                     StartsThree(100)
              /\ (Buffered(2, 100) /\ audioPlaybackContext = "suspended") =>
                     /\ Started = << >>
                     /\ Len(audioBufferQueue') = bufferThreshold
                     /\ resumeCallbacks' = resumeCallbacks + 1
       /\ (ResumeResolved /\ resumeCallbacks = 1
              /\ Len(audioBufferQueue) = bufferThreshold) =>
              /\ Len(Started) = bufferThreshold
              /\ \A i \in 1..3 : Started[i].idx = audioBufferQueue[i].idx
              /\ \A i \in 1..2 : Started[i + 1].start = Started[i].start + Started[i].dur
              /\ audioBufferQueue' = << >>
      ]_vars

\* C23 witness: three chunks of 100 samples were scheduled by the handler
\* of the third, back to back
C23_Witness ==
    /\ Speaking
    /\ audioPlaybackContext = "running"
    /\ ~isBuffering
    /\ nChunks = 3 /\ enqInPhase = 3
    /\ audioBufferQueue = << >>
    /\ Len(scheduled) = 3
    /\ \A i \in 1..3 : scheduled[i].idx = i /\ scheduled[i].dur = 100
    /\ scheduled[2].start = scheduled[1].start + 100
    /\ scheduled[3].start = scheduled[2].start + 100

\* C24: every chunk is started strictly after the value the output clock
\* has when it is scheduled; the first chunk a step schedules starts at the
\* playhead, or at now + 0.01 s when the clock has reached or passed the
\* playhead; every further chunk of the step starts where the one before
\* ends, and the step leaves the playhead at the end of the last one.
C24_NeverScheduledInThePast ==
    [][Started # << >> =>
           /\ \A i \in 1..Len(Started) :
                  /\ Started[i].at = currentTime
                  /\ Started[i].start > Started[i].at
           /\ Started[1].start = IF audioPlayheadTime <= currentTime
                                 THEN currentTime + SnapEpsilon
                                 ELSE audioPlayheadTime
           /\ \A i \in 1..(Len(Started) - 1) :
                  Started[i + 1].start = Started[i].start + Started[i].dur
           /\ audioPlayheadTime' = Started[Len(Started)].start
                                      + Started[Len(Started)].dur
      ]_vars

\* C24 witness: the clock had reached the playhead exactly when a chunk was
\* scheduled, so that the chunk starts 0.01 s later, and the next chunk
\* follows it
C24_Witness ==
    /\ Len(scheduled) >= 2
    /\ scheduled[1].at = PlayheadLead
    /\ scheduled[1].start = scheduled[1].at + SnapEpsilon
    /\ scheduled[2].start = EndOf(1)
    /\ audioPlayheadTime = EndOf(Len(scheduled))

\* C25: when the microphone is denied after the channel has opened, the
\* phase becomes Idle, the active flag is cleared, the channel is closed and
\* the status line shows the denial; the close event of a channel that comes
\* while the status line shows the denial leaves it there.
C25_MicDeniedResets ==
    [][/\ MicDenied =>
              /\ conversationState' = "idle"
              /\ ~isConversationActive'
              /\ websocket' = 0
              /\ \A w \in Sockets : wsState'[w] \notin {"connecting", "open"}
              /\ status' = "mic_denied"
       /\ \A w \in Sockets :
              (status = "mic_denied" /\ wsState'[w] # wsState[w] /\ WsClose(w))
                  => (status' = "mic_denied" /\ lostCount' = lostCount)
      ]_vars

\* C25 witness: the channel closed by the teardown of a denial has closed
\* and the status line still shows the denial
C25_Witness ==
    /\ status = "mic_denied"
    /\ conversationState = "idle"
    /\ ~isConversationActive
    /\ wsState[1] = "closed"
    /\ lostCount[1] = 0

\* the step dispatches a message of the given type with text T and appends
\* the turn (sender, T) at the end of the history
AppendsTurn(type, sender) ==
    \E T \in env.texts :
        /\ chatHistory' = Append(chatHistory, [sender |-> sender, message |-> T])
        /\ \E w \in Sockets : WsMessage(w, Message(type, T, 0, 0))

\* C26: but for the user start action from Idle, a step leaves the chat
\* history unchanged or appends one turn at its end: the user turn of a
\* turn_complete or the agent turn of an llm_response_complete, in the
\* order the messages are dispatched.
C26_HistoryAppendOnly ==
    [][chatHistory' # chatHistory =>
           \/ conversationState = "idle" /\ Click
           \/ AppendsTurn("turn_complete", "user")
           \/ AppendsTurn("llm_response_complete", "ai")]_vars

\* C26 witness: the agent turn was appended behind the user turn
C26_Witness ==
    /\ received = "llm_response_complete"
    /\ chatHistory = <<[sender |-> "user", message |-> "hello"],
                       [sender |-> "ai", message |-> "bye"]>>

\* the callback of some drain timer runs
FireDrain == \E r \in DOMAIN timers : r.kind = "drain" /\ FireTimer(r)

QueuedIn(q) == {q[i].idx : i \in 1..Len(q)}

\* C28 (as claimed): no decoded chunk is lost inside a Speaking phase: a
\* step that leaves the phase Speaking, the handling of chat_complete or
\* chat_started included, keeps every queued chunk in the queue or passes
\* it to scheduleChunkAtPlayhead.
C28_QueuedChunksKept ==
    [][(Speaking /\ conversationState' = "speaking") =>
           QueuedIn(audioBufferQueue) \subseteq
               QueuedIn(audioBufferQueue') \cup QueuedIn(Started)]_vars

\* C29 (as claimed): in an active session a Processing phase is eventually
\* left, whatever messages arrive or are lost.
C29_ProcessingIsLeft ==
    (conversationState = "processing" /\ isConversationActive)
        ~> (conversationState # "processing")

\* the message types the claim lists
PhaseNeutral == {"connection", "session_opened", "transcript", "chat_started",
                 "llm_response_complete", "chat_complete", "error",
                 "conversation_ended"}

\* C30: the dispatch of a connection, session_opened, transcript,
\* chat_started, llm_response_complete, chat_complete, error or
\* conversation_ended message changes neither the phase nor the active
\* flag, in any state; and a transcript changes the live transcript only
\* when the phase is Listening.
C30_MessagesKeepPhase ==
    [][received' \in PhaseNeutral =>
           /\ conversationState' = conversationState
           /\ isConversationActive' = isConversationActive
           /\ (received' = "transcript" /\ transcriptText' # transcriptText) =>
                  conversationState = "listening"]_vars

\* C30 witness: a transcript dispatched in Processing has left the live
\* transcript as the start of the conversation set it
C30_Witness ==
    /\ received = "transcript"
    /\ conversationState = "processing"
    /\ isConversationActive
    /\ transcriptText # "hello"

\* the step dispatches a turn_complete message
TurnCompleteStep ==
    \E w \in Sockets : \E T \in env.texts :
        WsMessage(w, Message("turn_complete", T, 0, 0))

\* C31 (as claimed): a user start action in Idle sets the phase to
\* Listening and the active flag, empties the history and opens a fresh
\* channel; and the phase then leaves Listening only by a turn_complete, a
\* user end action, or a failure of the channel of the conversation or of
\* a microphone request.
C31_StartPreserved ==
    [][/\ (conversationState = "idle" /\ Click) =>
              /\ conversationState' = "listening"
              /\ isConversationActive'
              /\ chatHistory' = << >>
              /\ websocket' # 0
              /\ wsState[websocket'] = "none"
              /\ wsState'[websocket'] = "connecting"
       /\ (conversationState = "listening" /\ conversationState' # "listening") =>
              \/ Click
              \/ TurnCompleteStep
              \/ websocket # 0 /\ (WsClose(websocket) \/ WsError(websocket))
              \/ MicDenied]_vars

\* C32 (as claimed): once the user end action has set the phase to
\* Ending, the phase stays Ending until it becomes Idle.
C32_EndingUntilIdle ==
    [][conversationState = "ending" =>
           conversationState' \in {"ending", "idle"}]_vars

\* socket w was closed by closeConnections and a later conversation has
\* made the socket the global refers to
TornDown(w) ==
    /\ wsState[w] \in {"closing", "failing"}
    /\ websocket # 0
    /\ websocket # w

\* C33 (as claimed): a close or error event of a channel torn down before
\* the current conversation was started changes neither the phase, the
\* active flag nor the connections of the current conversation.
C33_StaleCloseIgnored ==
    [][\A w \in Sockets :
           (TornDown(w) /\ wsState'[w] = "closed"
                /\ (WsClose(w) \/ WsError(w))) =>
               /\ conversationState' = conversationState
               /\ isConversationActive' = isConversationActive
               /\ websocket' = websocket
               /\ wsState'[websocket] = wsState[websocket]
               /\ audioContext' = audioContext
               /\ audioPlaybackContext' = audioPlaybackContext]_vars

\* C34 (as claimed): whenever the phase is Idle the channel, the capture
\* context and the playback context are released.
C34_IdleHoldsNothing ==
    conversationState = "idle" =>
        /\ websocket = 0
        /\ audioContext = "null"
        /\ audioPlaybackContext = "null"

\* C35: whenever the conversation is marked active the phase is Listening,
\* Processing or Speaking; the session is inactive in Idle and in Ending.
C35_ActiveOnlyInConversation ==
    isConversationActive =>
        conversationState \in {"listening", "processing", "speaking"}

\* C35 witness: the first conversation was ended and torn down, and the
\* second one is active in Processing
C35_Witness ==
    /\ isConversationActive
    /\ conversationState = "processing"
    /\ websocket = 2
    /\ wsState[1] = "closed"

\* the pending drain timers of a bag of timers
DrainCount(b) ==
    LET D == {r \in DOMAIN b : r.kind = "drain"}
    IN IF D = {} THEN 0 ELSE TimerCount([r \in D |-> b[r]])

\* C36: with a running playback context the queue holds fewer than
\* bufferThreshold chunks after every handler, and none when the
\* scheduler is not buffering; and a handleAudioComplete that runs with a
\* running context leaves no chunk in the queue.
C36_QueueBelowThreshold ==
    [][/\ audioPlaybackContext' = "running" =>
              /\ Len(audioBufferQueue') < bufferThreshold
              /\ ~isBuffering' => audioBufferQueue' = << >>
       /\ (audioPlaybackContext = "running"
              /\ DrainCount(timers') > DrainCount(timers)) =>
              audioBufferQueue' = << >>]_vars

\* C36 witness: audio_complete has flushed two chunks that were still
\* buffered and started them on the running context
C36_Witness ==
    /\ audioPlaybackContext = "running"
    /\ isBuffering
    /\ completeInPhase
    /\ DrainCount(timers) = 1
    /\ Len(scheduled) = 2
    /\ audioBufferQueue = << >>

====
